---------------------------- MODULE Spec2Model ----------------------------
(***************************************************************************)
(* A model of saf_streamlit7.py, the county climate-tech dashboard.        *)
(*                                                                         *)
(* One run of the script is: load_data (cached), then the three tabs in    *)
(* program order: Overview (hidden champions table), Scatterplots (OLS     *)
(* fit and slope), Choropleth Map (join of geometry and records).  The     *)
(* script has no try/except: an exception raised in a tab ends the run.    *)
(*                                                                         *)
(* Data frames are sequences of rows; a row is a function from column      *)
(* name to value and carries the pandas index label in the field "index".  *)
(* A missing number is NaN, a missing string is the empty CSV cell "".     *)
(***************************************************************************)
EXTENDS Integers, Sequences, FiniteSets, TLC

VARIABLES
    csv,              \* rows of county_master_geoid.csv, every cell a string
    shp,              \* rows of cb_2022_us_county_5m.shp (STATEFP, COUNTYFP)
    df,               \* the cached record table returned by load_data
    gdf,              \* the cached geometry table returned by load_data
    pc,               \* position of the script run
    hidden_champions, \* the frame shown by the Overview tab
    x_col, y_col,     \* the Scatterplots tab's two selections
    plot_df,          \* the complete-case frame of the Scatterplots tab
    slope,            \* the slope line of the Scatterplots tab
    chart,            \* TRUE when the scatter chart has been drawn
    selected_key,     \* the Choropleth tab's selection
    joined,           \* TRUE when gdf.merge(df, ...) has been evaluated
    merged,           \* the frame handed to px.choropleth_mapbox
    map_out,          \* what the Choropleth tab has shown: none, info, map
    err               \* the tab whose code raised, or "none"

vars == <<csv, shp, df, gdf, pc, hidden_champions, x_col, y_col, plot_df,
          slope, chart, selected_key, joined, merged, map_out, err>>

outputs == <<hidden_champions, x_col, y_col, plot_df, slope, chart,
             selected_key, joined, merged, map_out, err>>

----------------------------------------------------------------------------
(* Bounds of the explored inputs. *)

MaxRows == 2     \* rows of the CSV
MaxGeo == 2      \* features of the shapefile

(* The cells a metric column of the CSV may hold, the (COUNTY_NAME,        *)
(* STATE_NAME) pairs, the FIPS attribute values of a feature, and the      *)
(* cell of every metric column other than gdp and the centrality.          *)
CellValues == {"", "1", "2"}
NamePairs == {<<"Kent", "Ohio">>, <<"", "Ohio">>}
StateCodes == {"01", "1"}
CountyCodes == {"001", "3", "003"}
OtherCell == "n.d."
RecordIds == <<"01001", "01003", "01005", "01007">>

----------------------------------------------------------------------------
(* Program constants. *)

CENT == "Sustainable_Aviation_Fuels_degree_centrality"

numeric_cols ==
    <<"gdp", "population", "airport_count", "enplanements", "passengers",
      "departures", "arrivals", "freight", "mail", CENT, "SAF_FIRM_COUNT">>

metric_options ==
    << <<CENT, "SAF Centrality">>,
       <<"gdp", "GDP">>,
       <<"population", "Population">>,
       <<"airport_count", "Airport Count">>,
       <<"enplanements", "Enplanements">>,
       <<"passengers", "Passengers">>,
       <<"departures", "Departures">>,
       <<"arrivals", "Arrivals">>,
       <<"freight", "Freight">>,
       <<"mail", "Mail">>,
       <<"biomass", "Biomass (Coming Soon)">>,
       <<"ccs", "CCS (Coming Soon)">>,
       <<"hydrogen", "Hydrogen (Coming Soon)">> >>

TopN == 25

NaN == -1

NumericSet == {numeric_cols[i] : i \in DOMAIN numeric_cols}
StringCols == {"GEOID", "COUNTY_NAME", "STATE_NAME"}
CsvColumns == StringCols \cup NumericSet
DfColumns == CsvColumns \cup {"county_state"}
ShpColumns == {"STATEFP", "COUNTYFP"}

----------------------------------------------------------------------------
(* load_data *)

Numerals == <<"0", "1", "2", "3", "4", "5", "6", "7", "8", "9">>

\* pd.to_numeric(errors="coerce") of one cell: the number a numeral
\* denotes, NaN for the empty cell and for text that is no number.
to_numeric(cell) ==
    IF \E i \in DOMAIN Numerals : Numerals[i] = cell
    THEN (CHOOSE i \in DOMAIN Numerals : Numerals[i] = cell) - 1
    ELSE NaN

\* str + str of two object cells: NaN as soon as one side is NaN.
StrAdd(a, b) == IF a = "" \/ b = "" THEN "" ELSE a \o b

RECURSIVE zfill(_, _)
zfill(s, width) == IF Len(s) >= width THEN s ELSE zfill("0" \o s, width)

LoadRecord(raw, i) ==
    [c \in DfColumns \cup {"index"} |->
        IF c = "index" THEN i - 1
        ELSE IF c = "county_state"
             THEN StrAdd(StrAdd(raw["COUNTY_NAME"], ", "), raw["STATE_NAME"])
        ELSE IF c \in NumericSet THEN to_numeric(raw[c])
        ELSE raw[c]]

GeoKey(state, county) == zfill(state \o county, 5)

LoadGeometry(raw, i) ==
    [c \in ShpColumns \cup {"GEOID", "index"} |->
        IF c = "index" THEN i - 1
        ELSE IF c = "GEOID" THEN GeoKey(raw["STATEFP"], raw["COUNTYFP"])
        ELSE raw[c]]

load_data ==
    /\ pc = "load"
    /\ df' = [i \in DOMAIN csv |-> LoadRecord(csv[i], i)]
    /\ gdf' = [i \in DOMAIN shp |-> LoadGeometry(shp[i], i)]
    /\ pc' = "overview"
    /\ UNCHANGED <<csv, shp, outputs>>

----------------------------------------------------------------------------
(* Input files *)

CsvRow(id, names, g, c) ==
    [col \in CsvColumns |->
        IF col = "GEOID" THEN id
        ELSE IF col = "COUNTY_NAME" THEN names[1]
        ELSE IF col = "STATE_NAME" THEN names[2]
        ELSE IF col = "gdp" THEN g
        ELSE IF col = CENT THEN c
        ELSE OtherCell]

\* CSV files of up to MaxRows counties: every combination of names, gdp
\* cells and centrality cells.
CsvFiles ==
    UNION {
        { [i \in 1..n |-> CsvRow(RecordIds[i], nm[i], g[i], c[i])] :
            nm \in [1..n -> NamePairs],
            g \in [1..n -> CellValues],
            c \in [1..n -> CellValues] } : n \in 0..MaxRows }

\* CSV files of up to MaxRows named counties with the centralities 1, 2, ...
\* and every combination of gdp cells.
PlainCsvFiles ==
    UNION {
        { [i \in 1..n |-> CsvRow(RecordIds[i], <<"Kent", "Ohio">>, g[i], Numerals[i + 1])] :
            g \in [1..n -> CellValues] } : n \in 0..MaxRows }

ShpRow(s, c) == [col \in ShpColumns |-> IF col = "STATEFP" THEN s ELSE c]

\* shapefiles of up to MaxGeo features
ShpFiles ==
    UNION {
        { [i \in 1..n |-> ShpRow(s[i], c[i])] :
            s \in [1..n -> StateCodes], c \in [1..n -> CountyCodes] } :
        n \in 0..MaxGeo }

\* the empty shapefile and the one of the county 01001
PlainShpFiles == {<<>>, <<ShpRow("01", "001")>>}

NoSlope == [shown |-> FALSE, e4 |-> 0]

\* the process before load_data has run
Start ==
    /\ df = <<>>
    /\ gdf = <<>>
    /\ pc = "load"
    /\ hidden_champions = <<>>
    /\ x_col = "none"
    /\ y_col = "none"
    /\ plot_df = <<>>
    /\ slope = NoSlope
    /\ chart = FALSE
    /\ selected_key = "none"
    /\ joined = FALSE
    /\ merged = <<>>
    /\ map_out = "none"
    /\ err = "none"

\* varied records over a plain shapefile
Init == csv \in CsvFiles /\ shp \in PlainShpFiles /\ Start

\* varied geometry over plain records
InitGeo == csv \in PlainCsvFiles /\ shp \in ShpFiles /\ Start

----------------------------------------------------------------------------
(* Frame operations (pandas) *)

isna(v) == v = NaN

Min(a, b) == IF a <= b THEN a ELSE b

\* frame.head(n)
head(frame, n) == SubSeq(frame, 1, Min(n, Len(frame)))

\* frame[[cols]]: the columns kept, the index labels kept.
Project(frame, cols) ==
    [i \in DOMAIN frame |-> [c \in cols \cup {"index"} |-> frame[i][c]]]

RECURSIVE Filter(_, _, _)
\* the rows of frame that have every column of cols present, in order
Filter(frame, cols, strcols) ==
    IF frame = <<>> THEN <<>>
    ELSE LET r == Head(frame)
             keep == /\ \A c \in cols : ~isna(r[c])
                     /\ \A c \in strcols : r[c] # ""
         IN  (IF keep THEN <<r>> ELSE <<>>) \o Filter(Tail(frame), cols, strcols)

\* frame.dropna(): a row is dropped when any of its columns is missing.
\* numcols and strcols are the numeric and the text columns of the frame.
dropna(frame, numcols, strcols) == Filter(frame, numcols, strcols)

dropna_subset_none(frame, key) == frame

\* frame.dropna(subset=[key])
dropna_subset(frame, key) == Filter(frame, {key}, {})

Orders(n) == {p \in [1..n -> 1..n] : \A i, j \in 1..n : i # j => p[i] # p[j]}

\* nargsort(ascending=False): the present values come in non-increasing
\* order.  kind is the default "quicksort", which is not a stable sort, so
\* rows of equal value may come out in either order.
DescendingOrder(frame, col, p) ==
    \A i, j \in DOMAIN frame :
        (i < j /\ ~isna(frame[p[i]][col]) /\ ~isna(frame[p[j]][col]))
            => frame[p[i]][col] >= frame[p[j]][col]

\* nargsort(na_position="last"): the indexer ends with the positions of the
\* missing values, in row order.
NaPosition_first(frame, col, p) ==
    \A i, j \in DOMAIN frame :
        (i < j /\ isna(frame[p[j]][col]))
            => (isna(frame[p[i]][col]) /\ p[i] < p[j])

NaPosition(frame, col, p) ==
    \A i, j \in DOMAIN frame :
        (i < j /\ isna(frame[p[i]][col]))
            => (isna(frame[p[j]][col]) /\ p[i] < p[j])

\* the frames frame.sort_values(col, ascending=False) may return
sort_values(frame, col) ==
    { [k \in DOMAIN frame |-> frame[p[k]]] :
        p \in {q \in Orders(Len(frame)) :
                  DescendingOrder(frame, col, q) /\ NaPosition(frame, col, q)} }

----------------------------------------------------------------------------
(* Overview tab *)

ChampionCols ==
    {"county_state", "gdp", "population", "airport_count", CENT, "SAF_FIRM_COUNT"}

OverviewTab_inplace ==
    /\ pc = "overview"
    /\ \E sorted \in sort_values(df, CENT) :
           /\ df' = sorted
           /\ hidden_champions' = Project(head(sorted, TopN), ChampionCols)
    /\ pc' = "scatter"
    /\ UNCHANGED <<csv, shp, gdf, x_col, y_col, plot_df, slope, chart,
                   selected_key, joined, merged, map_out, err>>

OverviewTab ==
    /\ pc = "overview"
    /\ \E sorted \in sort_values(df, CENT) :
           hidden_champions' = Project(head(sorted, TopN), ChampionCols)
    /\ pc' = "scatter"
    /\ UNCHANGED <<csv, shp, df, gdf, x_col, y_col, plot_df, slope, chart,
                   selected_key, joined, merged, map_out, err>>

----------------------------------------------------------------------------
(* Scatterplots tab *)

\* Both select boxes offer numeric_cols; these are the selections explored.
XYChoices == {"gdp", CENT}

Column(frame, col) == [i \in DOMAIN frame |-> frame[i][col]]

RECURSIVE Sum(_)
Sum(s) == IF s = <<>> THEN 0 ELSE Head(s) + Sum(Tail(s))

Dot(a, b) == Sum([i \in DOMAIN a |-> a[i] * b[i]])

\* sm.add_constant (has_constant="skip") adds no constant column when the
\* data already holds one: a column of one repeated non-zero value.
HasConstant(xs) ==
    /\ \A i, j \in DOMAIN xs : xs[i] = xs[j]
    /\ \E i \in DOMAIN xs : xs[i] # 0

\* The coefficient of x in sm.OLS(ys, add_constant(xs)).fit().params, as the
\* fraction <<numerator, denominator>> with a positive denominator.  fit()
\* solves by the pseudo-inverse, so a rank-deficient design has a solution
\* too, the one of least norm.  Defined for one row or more.
ols_slope(xs, ys) ==
    LET n == Len(xs)
        sxx == n * Dot(xs, xs) - Sum(xs) * Sum(xs)
        sxy == n * Dot(xs, ys) - Sum(xs) * Sum(ys)
    IN  IF HasConstant(xs) THEN <<Dot(xs, ys), Dot(xs, xs)>>
        ELSE IF sxx = 0 THEN <<0, 1>>
        ELSE <<sxy, sxx>>

\* f"{slope:.4f}": the slope in units of 0.0001, rounded to the nearest.
Round4(q) ==
    LET a == IF q[1] < 0 THEN 0 - q[1] ELSE q[1]
        r == (2 * 10000 * a + q[2]) \div (2 * q[2])
    IN  IF q[1] < 0 THEN 0 - r ELSE r

\* sm.OLS raises ValueError on zero-size arrays: an empty complete-case
\* frame ends the run at line 107.
ScatterRaises(frame) == Len(frame) = 0

\* px.scatter(trendline="ols") fits again.  When add_constant adds no
\* column the fit has one parameter; plotly releases that format params[1]
\* into the hover text without looking raise IndexError, later ones do not.
TrendlineMayRaise(xs) == HasConstant(xs) /\ Len(xs) >= 2

\* With one column selected twice, df[[x_col, y_col, ...]] holds it twice and
\* plot_df[x_col] is a frame of two columns, not a series.  The fit then has
\* a matrix of parameters and no scalar slope; by library version
\* model.params either lacks the key x_col (slope is None) or yields a frame
\* (line 121 raises), and px.scatter either draws or raises on the repeated
\* column name.  stage is where the run ends: "chart" (px.scatter raised),
\* "slope" (line 121 raised) or "none" (no exception, no slope line).
SameColumnOutcomes == {"chart", "slope", "none"}

ScatterTab ==
    /\ pc = "scatter"
    /\ \E xc \in XYChoices, yc \in XYChoices :
        LET frame == dropna(Project(df, {xc, yc, "county_state"}),
                            {xc, yc}, {"county_state"})
        IN  /\ x_col' = xc
            /\ y_col' = yc
            /\ plot_df' = frame
            /\ IF ScatterRaises(frame)
               THEN /\ slope' = NoSlope
                    /\ chart' = FALSE
                    /\ err' = "scatter"
                    /\ pc' = "stopped"
               ELSE IF xc = yc
               THEN \E stage \in SameColumnOutcomes :
                    /\ slope' = NoSlope
                    /\ chart' = (stage # "chart")
                    /\ err' = IF stage = "none" THEN "none" ELSE "scatter"
                    /\ pc' = IF stage = "none" THEN "map" ELSE "stopped"
               ELSE \/ /\ slope' = [shown |-> TRUE,
                                    e4 |-> Round4(ols_slope(Column(frame, xc),
                                                            Column(frame, yc)))]
                       /\ chart' = TRUE
                       /\ err' = "none"
                       /\ pc' = "map"
                    \/ /\ TrendlineMayRaise(Column(frame, xc))
                       /\ slope' = NoSlope
                       /\ chart' = FALSE
                       /\ err' = "scatter"
                       /\ pc' = "stopped"
    /\ UNCHANGED <<csv, shp, df, gdf, hidden_champions, selected_key, joined,
                   merged, map_out>>

----------------------------------------------------------------------------
(* Choropleth Map tab *)

GdfColumns == ShpColumns \cup {"GEOID"}
MergedColumns == GdfColumns \cup DfColumns

\* one row of the join: the geometry's columns and the record's
Combine(l, r) ==
    [c \in MergedColumns \cup {"index"} |-> IF c \in GdfColumns THEN l[c] ELSE r[c]]

\* a geometry no record matches: every record column is missing
Unmatched(l) ==
    [c \in MergedColumns \cup {"index"} |->
        IF c \in GdfColumns THEN l[c]
        ELSE IF c \in NumericSet THEN NaN
        ELSE IF c = "index" THEN 0
        ELSE ""]

RECURSIVE LeftJoin(_, _)
LeftJoin(left, right) ==
    IF left = <<>> THEN <<>>
    ELSE LET l == Head(left)
             hits == SelectSeq(right, LAMBDA r : r["GEOID"] = l["GEOID"])
         IN  (IF hits = <<>> THEN <<Unmatched(l)>>
              ELSE [k \in DOMAIN hits |-> Combine(l, hits[k])])
             \o LeftJoin(Tail(left), right)

\* left.merge(right, on="GEOID", how="left"): every row of left, in order,
\* once per matching row of right; the result has a new RangeIndex.
merge(left, right) ==
    LET rows == LeftJoin(left, right)
    IN  [k \in DOMAIN rows |-> [rows[k] EXCEPT !["index"] = k - 1]]

ComingSoon_first(label) == label = "Biomass (Coming Soon)"

\* "Coming Soon" in label, over the labels of metric_options
ComingSoon(label) ==
    label \in {"Biomass (Coming Soon)", "CCS (Coming Soon)", "Hydrogen (Coming Soon)"}

MapTab ==
    /\ pc = "map"
    /\ \E k \in DOMAIN metric_options :
        LET key == metric_options[k][1]
            label == metric_options[k][2]
        IN  /\ selected_key' = key
            /\ IF ComingSoon(label)
               THEN /\ joined' = FALSE
                    /\ merged' = <<>>
                    /\ map_out' = "info"
                    /\ err' = "none"
                    /\ pc' = "done"
               ELSE /\ joined' = TRUE
                    /\ IF key \in MergedColumns
                       THEN /\ merged' = dropna_subset(merge(gdf, df), key)
                            /\ map_out' = "map"
                            /\ err' = "none"
                            /\ pc' = "done"
                       ELSE \* dropna(subset=[key]) raises KeyError
                            /\ merged' = <<>>
                            /\ map_out' = "none"
                            /\ err' = "map"
                            /\ pc' = "stopped"
    /\ UNCHANGED <<csv, shp, df, gdf, hidden_champions, x_col, y_col, plot_df,
                   slope, chart>>

----------------------------------------------------------------------------
(* A user interaction reruns the script; load_data is served from the cache. *)

Rerun ==
    /\ pc \in {"done", "stopped"}
    /\ pc' = "overview"
    /\ hidden_champions' = <<>>
    /\ x_col' = "none"
    /\ y_col' = "none"
    /\ plot_df' = <<>>
    /\ slope' = NoSlope
    /\ chart' = FALSE
    /\ selected_key' = "none"
    /\ joined' = FALSE
    /\ merged' = <<>>
    /\ map_out' = "none"
    /\ err' = "none"
    /\ UNCHANGED <<csv, shp, df, gdf>>

Next == load_data \/ OverviewTab \/ ScatterTab \/ MapTab \/ Rerun

Spec == Init /\ [][Next]_vars

SpecGeo == InitGeo /\ [][Next]_vars

----------------------------------------------------------------------------
(* Properties *)

Indexes(frame) == {frame[k]["index"] : k \in DOMAIN frame}

OverviewDone == pc \notin {"load", "overview"}
ScatterDone == x_col # "none"
MapDone == selected_key # "none"

Placeholders == {"biomass", "ccs", "hydrogen"}

\* C1: in the map view a placeholder key (biomass, ccs, hydrogen) never
\* reaches the join and never renders a map, its only output is the
\* "coming soon" notice; any other key reaches the join.
C1_PlaceholderNeverJoins ==
    MapDone =>
        IF selected_key \in Placeholders
        THEN ~joined /\ merged = <<>> /\ map_out = "info" /\ err = "none"
        ELSE joined

\* a placeholder chosen over tables whose join would have produced a row
C1_Witness ==
    /\ selected_key = "hydrogen"
    /\ map_out = "info"
    /\ \E i \in DOMAIN gdf, j \in DOMAIN df :
           gdf[i]["GEOID"] = df[j]["GEOID"] /\ ~isna(df[j]["gdp"])

\* C2: an error raised in one view does not keep the other views from being
\* computed in the same render: a run in which the scatterplot view raised
\* still shows the map view.
C2_ViewsIndependent ==
    (pc = "stopped" /\ err = "scatter") => map_out # "none"

\* the rows of df that have both columns present
CompleteCases(x, y) ==
    {i \in DOMAIN df : ~isna(df[i][x]) /\ ~isna(df[i][y])}

\* C3: with fewer than 2 complete-case rows, or with X equal in all of them,
\* the slope is reported as unavailable: nothing raises and no number shows.
C3_DegenerateSlopeUnavailable ==
    LET rows == CompleteCases(x_col, y_col)
    IN  (/\ ScatterDone
         /\ \/ Cardinality(rows) < 2
            \/ \A i, j \in rows : df[i][x_col] = df[j][x_col])
        => (err = "none" /\ ~slope.shown)

\* C4: the ranking view is sorted descending by the centrality, rows of equal
\* centrality keep their order in the dataset, and with N at least the number
\* of records every record is in it.
C4_StableDescending ==
    OverviewDone =>
        /\ \A i, j \in DOMAIN hidden_champions :
              (/\ i < j
               /\ ~isna(hidden_champions[i][CENT])
               /\ ~isna(hidden_champions[j][CENT]))
              => \/ hidden_champions[i][CENT] > hidden_champions[j][CENT]
                 \/ /\ hidden_champions[i][CENT] = hidden_champions[j][CENT]
                    /\ hidden_champions[i]["index"] < hidden_champions[j]["index"]
        /\ Len(df) <= TopN => Indexes(hidden_champions) = Indexes(df)

Present(frame) == {k \in DOMAIN frame : ~isna(frame[k][CENT])}

\* C5: in the ranking view every record without a centrality comes after
\* every record with one and none is dropped: the first N rows hold a record
\* without centrality only when N exceeds the number of records with one.
C5_MissingLastNeverDropped ==
    OverviewDone =>
        /\ \A i, j \in DOMAIN hidden_champions :
              (i < j /\ isna(hidden_champions[i][CENT]))
              => isna(hidden_champions[j][CENT])
        /\ Len(df) <= TopN =>
              /\ Len(hidden_champions) = Len(df)
              /\ Indexes(hidden_champions) = Indexes(df)
              /\ \A k \in DOMAIN hidden_champions :
                    hidden_champions[k][CENT] = df[hidden_champions[k]["index"] + 1][CENT]
        /\ \A n \in 1..Len(hidden_champions) :
              (\E k \in 1..n : isna(hidden_champions[k][CENT]))
              => n > Cardinality(Present(df))

\* the dataset's first record has no centrality, its second has one, and the
\* table shows the second before the first
C5_Witness ==
    /\ OverviewDone
    /\ Len(df) = 2
    /\ isna(df[1][CENT]) /\ ~isna(df[2][CENT])
    /\ Len(hidden_champions) = 2
    /\ hidden_champions[1]["index"] = 1
    /\ hidden_champions[2]["index"] = 0

\* C6: the join key of a geometry has length 5 and is the state code padded
\* to 2 followed by the county code padded to 3.
C6_GeoidComponentPadded ==
    \A i \in DOMAIN gdf :
        (/\ Len(gdf[i]["STATEFP"]) \in 1..2
         /\ Len(gdf[i]["COUNTYFP"]) \in 1..3)
        => /\ Len(gdf[i]["GEOID"]) = 5
           /\ gdf[i]["GEOID"] = zfill(gdf[i]["STATEFP"], 2) \o zfill(gdf[i]["COUNTYFP"], 3)

UniqueIds == \A i, j \in DOMAIN df : df[i]["GEOID"] = df[j]["GEOID"] => i = j

\* the geometries whose identifier is that of a record with the key present
Mappable(key) ==
    {i \in DOMAIN gdf :
        \E j \in DOMAIN df : df[j]["GEOID"] = gdf[i]["GEOID"] /\ ~isna(df[j][key])}

\* C7: with unique record identifiers, the frame handed to the map has one
\* row for each geometry whose identifier matches a record that has the
\* selected metric, and no other row.
C7_MapRowsExact ==
    (map_out = "map" /\ UniqueIds) =>
        /\ Len(merged) = Cardinality(Mappable(selected_key))
        /\ \A k \in DOMAIN merged :
              LET g == merged[k]["index"] + 1
              IN  /\ g \in Mappable(selected_key)
                  /\ \A c \in GdfColumns : merged[k][c] = gdf[g][c]
                  /\ \E j \in DOMAIN df :
                        /\ df[j]["GEOID"] = gdf[g]["GEOID"]
                        /\ merged[k][selected_key] = df[j][selected_key]
        /\ \A k, l \in DOMAIN merged :
              merged[k]["index"] = merged[l]["index"] => k = l

\* two geometries that both match a record: the first one's record lacks the
\* metric and is left out, the second one's has it and is the map's only row
C7_Witness ==
    /\ map_out = "map"
    /\ selected_key = "gdp"
    /\ Len(gdf) = 2 /\ Len(df) = 2
    /\ gdf[1]["GEOID"] = df[1]["GEOID"] /\ isna(df[1]["gdp"])
    /\ gdf[2]["GEOID"] = df[2]["GEOID"] /\ ~isna(df[2]["gdp"])
    /\ Len(merged) = 1
    /\ merged[1]["index"] = 1

\* C8: for distinct X and Y the rows fitted and plotted are exactly the
\* records that have both X and Y.
C8_CompleteCaseExact ==
    (ScatterDone /\ x_col # y_col) =>
        Indexes(plot_df) = {df[i]["index"] : i \in CompleteCases(x_col, y_col)}

\* C9: once loaded, the record table and the geometry table are never
\* modified, whatever is selected and however often the script reruns.
C9_TablesNeverModified ==
    [][pc # "load" => (df' = df /\ gdf' = gdf)]_vars

\* a finished render that sorted the records into another order and joined
\* them to a geometry
C9_Witness ==
    /\ pc = "done"
    /\ Len(hidden_champions) = 2
    /\ hidden_champions[1]["index"] = 1
    /\ Len(plot_df) > 0
    /\ joined
    /\ Len(merged) > 0

\* C10: with the same metric for X and Y and at least 2 rows of differing
\* values in the fitted frame, the fit runs without error and the slope
\* 1.0000 is shown.
C10_SameMetricSlopeOne ==
    (/\ ScatterDone
     /\ x_col = y_col
     /\ \E i, j \in DOMAIN plot_df : plot_df[i][x_col] # plot_df[j][x_col])
    => (err = "none" /\ slope.shown /\ slope.e4 = 10000)
=============================================================================
